---------------------------- MODULE Spec2Model ----------------------------
(***************************************************************************)
(* Model of sqlite-wasm-uuid-rs (src/src/lib.rs): the SQL functions        *)
(* uuid, uuid_str, uuid_blob, uuid7, uuid7_blob and the extension entry    *)
(* point sqlite3_uuid_init.                                                *)
(*                                                                         *)
(* An SQL value is a record [t, v]: t is the SQLite type tag and v the     *)
(* payload as a sequence of bytes (the UTF-8 bytes of a TEXT value, the    *)
(* bytes of a BLOB).  A Uuid is a sequence of 16 bytes; Option<Uuid> is    *)
(* either such a sequence or None.                                         *)
(***************************************************************************)
EXTENDS Integers, Sequences, FiniteSets

(***************************************************************************)
(* SQLite constants used by the source.                                    *)
(***************************************************************************)
SQLITE_OK == 0
SQLITE_UTF8 == 1
SQLITE_DETERMINISTIC == 2048
SQLITE_INNOCUOUS == 2097152

None == <<>>

Byte == 0..255

Text(bs) == [t |-> "text", v |-> bs]
Blob(bs) == [t |-> "blob", v |-> bs]
Null == [t |-> "null", v |-> <<>>]
Integer(n) == [t |-> "integer", v |-> <<n>>]
Real(n) == [t |-> "real", v |-> <<n>>]

(***************************************************************************)
(* Hexadecimal digits (ASCII).                                             *)
(***************************************************************************)
\* value of an ASCII hex digit, -1 for any other byte
HexVal(c) ==
    IF c >= 48 /\ c <= 57 THEN c - 48
    ELSE IF c >= 65 /\ c <= 70 THEN c - 55
    ELSE IF c >= 97 /\ c <= 102 THEN c - 87
    ELSE -1

\* the lowercase ASCII hex digit of a nibble
LowerHex(n) == IF n < 10 THEN 48 + n ELSE 87 + n

Hyphen == 45

(***************************************************************************)
(* Uuid::parse_str: the simple (32), hyphenated (36), braced (38) and URN  *)
(* (45) forms.                                                             *)
(***************************************************************************)
\* a mutant: the two digits of each byte are taken in the wrong order
ParseSimple_MutSwap(s) ==
    IF \A i \in 1..32 : HexVal(s[i]) >= 0
    THEN [i \in 1..16 |-> 16 * HexVal(s[2 * i]) + HexVal(s[2 * i - 1])]
    ELSE None

\* 32 hex digits -> 16 bytes
ParseSimple(s) ==
    IF \A i \in 1..32 : HexVal(s[i]) >= 0
    THEN [i \in 1..16 |-> 16 * HexVal(s[2 * i - 1]) + HexVal(s[2 * i])]
    ELSE None

\* the 32 places of the hyphenated form that hold a digit
DigitPos ==
    <<1, 2, 3, 4, 5, 6, 7, 8, 10, 11, 12, 13, 15, 16, 17, 18, 20, 21, 22, 23,
      25, 26, 27, 28, 29, 30, 31, 32, 33, 34, 35, 36>>

\* 36 bytes, hyphens at 9, 14, 19, 24 and hex digits elsewhere -> 16 bytes
ParseHyphenated(s) ==
    IF s[9] = Hyphen /\ s[14] = Hyphen /\ s[19] = Hyphen /\ s[24] = Hyphen
    THEN ParseSimple([i \in 1..32 |-> s[DigitPos[i]]])
    ELSE None

\* the ASCII bytes of "urn:uuid:"
UrnPrefix == <<117, 114, 110, 58, 117, 117, 105, 100, 58>>

parse_str(s) ==
    IF Len(s) = 32 THEN ParseSimple(s)
    ELSE IF Len(s) = 36 THEN ParseHyphenated(s)
    ELSE IF Len(s) = 38 /\ s[1] = 123 /\ s[38] = 125
        THEN ParseHyphenated(SubSeq(s, 2, 37))
    ELSE IF Len(s) = 45 /\ SubSeq(s, 1, 9) = UrnPrefix
        THEN ParseHyphenated(SubSeq(s, 10, 45))
    ELSE None

(***************************************************************************)
(* Uuid::to_string: 36 bytes, lowercase hex, hyphens at 9, 14, 19, 24.     *)
(***************************************************************************)
\* the two lowercase hex digits of a byte
HexByte(b) == <<LowerHex(b \div 16), LowerHex(b % 16)>>

\* the two uppercase hex digits of a byte
HexByteUpper(b) ==
    LET up(c) == IF c >= 97 THEN c - 32 ELSE c
    IN <<up(LowerHex(b \div 16)), up(LowerHex(b % 16))>>

\* a mutant: the digits are written in upper case
to_string_MutUpper(u) ==
    HexByteUpper(u[1]) \o HexByteUpper(u[2]) \o HexByteUpper(u[3])
    \o HexByteUpper(u[4]) \o <<Hyphen>>
    \o HexByteUpper(u[5]) \o HexByteUpper(u[6]) \o <<Hyphen>>
    \o HexByteUpper(u[7]) \o HexByteUpper(u[8]) \o <<Hyphen>>
    \o HexByteUpper(u[9]) \o HexByteUpper(u[10]) \o <<Hyphen>>
    \o HexByteUpper(u[11]) \o HexByteUpper(u[12]) \o HexByteUpper(u[13])
    \o HexByteUpper(u[14]) \o HexByteUpper(u[15]) \o HexByteUpper(u[16])

\* the groups of 4, 2, 2, 2 and 6 bytes, each byte as two lowercase digits
to_string(u) ==
    HexByte(u[1]) \o HexByte(u[2]) \o HexByte(u[3]) \o HexByte(u[4])
    \o <<Hyphen>> \o HexByte(u[5]) \o HexByte(u[6])
    \o <<Hyphen>> \o HexByte(u[7]) \o HexByte(u[8])
    \o <<Hyphen>> \o HexByte(u[9]) \o HexByte(u[10])
    \o <<Hyphen>> \o HexByte(u[11]) \o HexByte(u[12]) \o HexByte(u[13])
    \o HexByte(u[14]) \o HexByte(u[15]) \o HexByte(u[16])

(***************************************************************************)
(* parse_uuid_arg                                                          *)
(***************************************************************************)
\* CStr::from_ptr: the bytes before the first NUL
CStrFromPtr(bs) ==
    IF \A i \in 1..Len(bs) : bs[i] # 0 THEN bs
    ELSE SubSeq(bs, 1, (CHOOSE i \in 1..Len(bs) :
                            bs[i] = 0 /\ \A j \in 1..(i - 1) : bs[j] # 0) - 1)

\* the width of the UTF-8 sequence a byte begins, 0 when it begins none
Utf8Width(b) ==
    IF b < 128 THEN 1
    ELSE IF b >= 194 /\ b <= 223 THEN 2
    ELSE IF b >= 224 /\ b <= 239 THEN 3
    ELSE IF b >= 240 /\ b <= 244 THEN 4
    ELSE 0

\* the bytes that may follow the first byte b of a sequence: no overlong
\* form, no surrogate, nothing above U+10FFFF
Utf8Second(b) ==
    IF b = 224 THEN 160..191
    ELSE IF b = 237 THEN 128..159
    ELSE IF b = 240 THEN 144..191
    ELSE IF b = 244 THEN 128..143
    ELSE 128..191

\* CStr::to_str: Ok iff the bytes are valid UTF-8.  A byte below 0x80 stands
\* alone; a byte of 0x80..0xBF continues the sequence begun at most three
\* places before it; any other byte begins a sequence that must be complete
ToStrOk(bs) ==
    \A i \in 1..Len(bs) :
        IF bs[i] < 128 THEN TRUE
        ELSE IF bs[i] <= 191
        THEN \E k \in 1..3 :
                /\ i - k >= 1
                /\ Utf8Width(bs[i - k]) > k
                /\ \A m \in 1..(k - 1) : bs[i - m] \in 128..191
        ELSE LET w == Utf8Width(bs[i])
             IN /\ w > 0
                /\ i + w - 1 <= Len(bs)
                /\ bs[i + 1] \in Utf8Second(bs[i])
                /\ \A k \in 2..(w - 1) : bs[i + k] \in 128..191

parse_uuid_arg_MutBlobLen(arg) ==
    IF arg.t = "text"
    THEN LET s == CStrFromPtr(arg.v)
         IN IF ToStrOk(s) THEN parse_str(s) ELSE None
    ELSE IF arg.t = "blob"
    THEN IF Len(arg.v) >= 16 THEN SubSeq(arg.v, 1, 16) ELSE None
    ELSE None

parse_uuid_arg(arg) ==
    IF arg.t = "text"
    THEN LET s == CStrFromPtr(arg.v)
         IN IF ToStrOk(s) THEN parse_str(s) ELSE None
    ELSE IF arg.t = "blob"
    THEN IF Len(arg.v) = 16 THEN SubSeq(arg.v, 1, 16) ELSE None
    ELSE None


(***************************************************************************)
(* Uuid::new_v4: 16 random bytes with the version and variant bits set.    *)
(***************************************************************************)
new_v4_MutNoTag(rnd) == rnd

new_v4(rnd) ==
    [i \in 1..16 |-> IF i = 7 THEN (rnd[i] % 16) + 64
                     ELSE IF i = 9 THEN (rnd[i] % 64) + 128
                     ELSE rnd[i]]

(***************************************************************************)
(* Uuid::now_v7: the process-wide ContextV7 (a reseeding 42-bit counter    *)
(* behind a mutex) and the layout of the identifier.  A u64 (seconds,      *)
(* milliseconds) is kept as four 16-bit limbs, the most significant        *)
(* first; a counter is 42 bits, kept as <<high 12 bits, low 30 bits>>.     *)
(***************************************************************************)
Two16 == 65536
Two30 == 1073741824
CounterHiMax == 4095

U64Max == <<65535, 65535, 65535, 65535>>

\* a < b on u64
U64Less(a, b) ==
    \E i \in 1..4 : a[i] < b[i] /\ \A j \in 1..(i - 1) : a[j] = b[j]

\* (a * m) + c on u64, for m and c below 2^15: the value modulo 2^64 and
\* whether the exact result is 2^64 or more
U64MulAdd(a, m, c) ==
    LET t4 == (a[4] * m) + c
        t3 == (a[3] * m) + (t4 \div Two16)
        t2 == (a[2] * m) + (t3 \div Two16)
        t1 == (a[1] * m) + (t2 \div Two16)
    IN [value |-> <<t1 % Two16, t2 % Two16, t3 % Two16, t4 % Two16>>,
        overflow |-> t1 >= Two16]

\* a.wrapping_mul(m) and a.wrapping_add(c)
wrapping_mul(a, m) == U64MulAdd(a, m, 0).value
wrapping_add(a, c) == U64MulAdd(a, 1, c).value

\* a.saturating_mul(m) and a.saturating_add(c)
saturating_mul(a, m) ==
    IF U64MulAdd(a, m, 0).overflow THEN U64Max ELSE U64MulAdd(a, m, 0).value
saturating_add(a, c) ==
    IF U64MulAdd(a, 1, c).overflow THEN U64Max ELSE U64MulAdd(a, 1, c).value

\* ReseedingTimestamp::from_ts: last_seed is the milliseconds of
\* (seconds, subsec_nanos), saturating
from_ts(seconds, subsec_nanos) ==
    [last_seed |-> saturating_add(saturating_mul(seconds, 1000),
                                  subsec_nanos \div 1000000),
     seconds |-> seconds, subsec_nanos |-> subsec_nanos]

\* ReseedingTimestamp::advance: a later millisecond replaces the timestamp
\* and asks for a reseed; otherwise the stored seconds and last_seed stay and
\* the sub-second part becomes the larger of the stored and the incoming one
advance(self, seconds, subsec_nanos) ==
    LET incoming == from_ts(seconds, subsec_nanos)
    IN IF U64Less(self.last_seed, incoming.last_seed)
       THEN [timestamp |-> incoming, should_reseed |-> TRUE]
       ELSE [timestamp |->
                [self EXCEPT !.subsec_nanos =
                    IF self.subsec_nanos >= subsec_nanos
                    THEN self.subsec_nanos ELSE subsec_nanos],
             should_reseed |-> FALSE]

\* ReseedingTimestamp::increment: 1000000 ns are added to the stored
\* (seconds, subsec_nanos), a full second carried into seconds, and the
\* timestamp is rebuilt from the sum; the nanoseconds below the millisecond
\* stay.  For subsec_nanos below 10^9, as a clock reads.
increment(self) ==
    LET n == self.subsec_nanos + 1000000
    IN from_ts(wrapping_add(self.seconds, n \div 1000000000), n % 1000000000)

\* Counter::increment, not reduced: the high part may exceed CounterHiMax
CounterInc(c) ==
    IF c[2] + 1 < Two30 THEN <<c[1], c[2] + 1>> ELSE <<c[1] + 1, 0>>

\* ContextV7::new()
ContextV7New ==
    [timestamp |-> [last_seed |-> <<0, 0, 0, 0>>, seconds |-> <<0, 0, 0, 0>>,
                    subsec_nanos |-> 0],
     counter |-> <<0, 0>>]

\* what generate_timestamp_sequence stores and returns
Generated(timestamp, counter) ==
    [ctx |-> [timestamp |-> timestamp, counter |-> counter],
     counter |-> counter,
     seconds |-> timestamp.seconds, subsec_nanos |-> timestamp.subsec_nanos]

\* ContextV7::generate_timestamp_sequence with the observed clock
\* (seconds, subsec_nanos) and `seed` the random value masked to 41 bits
\* drawn on a reseed
generate_timestamp_sequence(self, seconds, subsec_nanos, seed) ==
    LET a == advance(self.timestamp, seconds, subsec_nanos)
    IN IF a.should_reseed
       THEN Generated(a.timestamp, seed)
       ELSE LET c == CounterInc(self.counter)
            IN IF c[1] <= CounterHiMax
               THEN Generated(a.timestamp, c)
               ELSE Generated(increment(a.timestamp), seed)

\* the first 10 bytes of counter_and_random: the 42-bit counter in the top
\* 44 bits, shifted around a 2-bit gap below its high 12 bits, and the
\* 128-bit random draw `rnd` in the bits that follow
counter_random_bytes(counter, rnd) ==
    << counter[1] \div 16,
       (16 * (counter[1] % 16)) + (counter[2] \div 268435456),
       (counter[2] \div 1048576) % 256,
       (counter[2] \div 4096) % 256,
       (counter[2] \div 16) % 256,
       (16 * (counter[2] % 16)) + (rnd[6] % 16),
       rnd[7], rnd[8], rnd[9], rnd[10] >>

\* encode_unix_timestamp_millis: the low 48 bits of millis, the version over
\* the top 4 bits of the counter bytes, the variant over the top 2 bits of
\* their third byte
encode_unix_timestamp_millis(millis, crb) ==
    << millis[2] \div 256, millis[2] % 256, millis[3] \div 256, millis[3] % 256,
       millis[4] \div 256, millis[4] % 256,
       112 + (crb[1] % 16), crb[2], 128 + (crb[3] % 64),
       crb[4], crb[5], crb[6], crb[7], crb[8], crb[9], crb[10] >>

\* what a panic leaves in place of an identifier
Unwind == <<"panic">>

\* Uuid::new_v7 of the Timestamp ts = (seconds, subsec_nanos, counter) and
\* the 128-bit random draw rnd.  The milliseconds are
\* (seconds * 1000).saturating_add(subsec_nanos / 1000000): when the product
\* is 2^64 or more, a build with overflow checks panics and a build without
\* them takes the product modulo 2^64.
new_v7(ts, rnd, overflow_checks) ==
    IF overflow_checks /\ U64MulAdd(ts.seconds, 1000, 0).overflow
    THEN Unwind
    ELSE encode_unix_timestamp_millis(
             saturating_add(wrapping_mul(ts.seconds, 1000),
                            ts.subsec_nanos \div 1000000),
             counter_random_bytes(ts.counter, rnd))

\* lexicographic comparison of two byte sequences, a proper prefix smaller
RECURSIVE BytesLess(_, _)
BytesLess(a, b) ==
    IF b = <<>> THEN FALSE
    ELSE IF a = <<>> THEN TRUE
    ELSE IF Head(a) # Head(b) THEN Head(a) < Head(b)
    ELSE BytesLess(Tail(a), Tail(b))

BytesLeq(a, b) == \lnot BytesLess(b, a)

(***************************************************************************)
(* The values of the model: the arguments a caller passes, and the         *)
(* clock and random values a generating call draws.                        *)
(***************************************************************************)
\* TEXT "00000000-0000-0000-0000-000000000000"
TextZeroBytes ==
    <<48, 48, 48, 48, 48, 48, 48, 48, 45, 48, 48, 48, 48, 45, 48, 48, 48,
    48, 45, 48, 48, 48, 48, 45, 48, 48, 48, 48, 48, 48, 48, 48, 48, 48,
    48, 48>>

\* TEXT "12345678-1234-1234-1234-123456789abc"
TextLowerBytes ==
    <<49, 50, 51, 52, 53, 54, 55, 56, 45, 49, 50, 51, 52, 45, 49, 50, 51,
    52, 45, 49, 50, 51, 52, 45, 49, 50, 51, 52, 53, 54, 55, 56, 57, 97,
    98, 99>>

\* TEXT "12345678-1234-1234-1234-123456789ABC"
TextUpperBytes ==
    <<49, 50, 51, 52, 53, 54, 55, 56, 45, 49, 50, 51, 52, 45, 49, 50, 51,
    52, 45, 49, 50, 51, 52, 45, 49, 50, 51, 52, 53, 54, 55, 56, 57, 65,
    66, 67>>

\* TEXT "12345678123412341234123456789abc" (32 characters)
TextSimpleBytes ==
    <<49, 50, 51, 52, 53, 54, 55, 56, 49, 50, 51, 52, 49, 50, 51, 52, 49,
    50, 51, 52, 49, 50, 51, 52, 53, 54, 55, 56, 57, 97, 98, 99>>

\* TEXT "FFFFFFFFFFFFFFFFFFFFFFFFFFFFFFFF" (32 characters)
TextSimpleUpperBytes ==
    <<70, 70, 70, 70, 70, 70, 70, 70, 70, 70, 70, 70, 70, 70, 70, 70, 70,
    70, 70, 70, 70, 70, 70, 70, 70, 70, 70, 70, 70, 70, 70, 70>>

\* TEXT "aBcDeF01-2345-6789-AbCd-Ef0123456789"
TextMixedBytes ==
    <<97, 66, 99, 68, 101, 70, 48, 49, 45, 50, 51, 52, 53, 45, 54, 55, 56,
    57, 45, 65, 98, 67, 100, 45, 69, 102, 48, 49, 50, 51, 52, 53, 54, 55,
    56, 57>>

\* TEXT "{12345678-1234-1234-1234-123456789abc}" (38 characters)
TextBracedBytes ==
    <<123, 49, 50, 51, 52, 53, 54, 55, 56, 45, 49, 50, 51, 52, 45, 49, 50,
    51, 52, 45, 49, 50, 51, 52, 45, 49, 50, 51, 52, 53, 54, 55, 56, 57,
    97, 98, 99, 125>>

\* TEXT "urn:uuid:12345678-1234-1234-1234-123456789abc" (45 characters)
TextUrnBytes ==
    <<117, 114, 110, 58, 117, 117, 105, 100, 58, 49, 50, 51, 52, 53, 54,
    55, 56, 45, 49, 50, 51, 52, 45, 49, 50, 51, 52, 45, 49, 50, 51, 52,
    45, 49, 50, 51, 52, 53, 54, 55, 56, 57, 97, 98, 99>>

\* TEXT "12345678-1234-1234-1234-123456789ab" (35 characters)
Text35Bytes ==
    <<49, 50, 51, 52, 53, 54, 55, 56, 45, 49, 50, 51, 52, 45, 49, 50, 51,
    52, 45, 49, 50, 51, 52, 45, 49, 50, 51, 52, 53, 54, 55, 56, 57, 97,
    98>>

\* TEXT "12345678-1234-1234-1234-123456789abcd" (37 characters)
Text37Bytes ==
    <<49, 50, 51, 52, 53, 54, 55, 56, 45, 49, 50, 51, 52, 45, 49, 50, 51,
    52, 45, 49, 50, 51, 52, 45, 49, 50, 51, 52, 53, 54, 55, 56, 57, 97,
    98, 99, 100>>

\* TEXT "12345678123412341234123456789ab" (31 characters)
Text31Bytes ==
    <<49, 50, 51, 52, 53, 54, 55, 56, 49, 50, 51, 52, 49, 50, 51, 52, 49,
    50, 51, 52, 49, 50, 51, 52, 53, 54, 55, 56, 57, 97, 98>>

\* TEXT "g2345678-1234-1234-1234-123456789abc"
TextNonHex36Bytes ==
    <<103, 50, 51, 52, 53, 54, 55, 56, 45, 49, 50, 51, 52, 45, 49, 50, 51,
    52, 45, 49, 50, 51, 52, 45, 49, 50, 51, 52, 53, 54, 55, 56, 57, 97,
    98, 99>>

\* TEXT "12345678123412341234123456789abz" (32 characters)
TextNonHex32Bytes ==
    <<49, 50, 51, 52, 53, 54, 55, 56, 49, 50, 51, 52, 49, 50, 51, 52, 49,
    50, 51, 52, 49, 50, 51, 52, 53, 54, 55, 56, 57, 97, 98, 122>>

\* TEXT "123456781-234-1234-1234-123456789abc" (36 characters)
TextBadHyphenBytes ==
    <<49, 50, 51, 52, 53, 54, 55, 56, 49, 45, 50, 51, 52, 45, 49, 50, 51,
    52, 45, 49, 50, 51, 52, 45, 49, 50, 51, 52, 53, 54, 55, 56, 57, 97,
    98, 99>>

\* TEXT "12345678123412341234123456789abc0000" (36 characters)
TextNoHyphen36Bytes ==
    <<49, 50, 51, 52, 53, 54, 55, 56, 49, 50, 51, 52, 49, 50, 51, 52, 49,
    50, 51, 52, 49, 50, 51, 52, 53, 54, 55, 56, 57, 97, 98, 99, 48, 48,
    48, 48>>

\* TEXT "12345678-1234-1234-1234-123456789abc" followed by a NUL byte and "x" (38 bytes)
TextNulBytes ==
    <<49, 50, 51, 52, 53, 54, 55, 56, 45, 49, 50, 51, 52, 45, 49, 50, 51,
    52, 45, 49, 50, 51, 52, 45, 49, 50, 51, 52, 53, 54, 55, 56, 57, 97,
    98, 99, 0, 120>>

\* TEXT of 36 bytes whose first byte is 0xFF (not UTF-8)
TextNotUtf8Bytes ==
    <<255, 50, 51, 52, 53, 54, 55, 56, 45, 49, 50, 51, 52, 45, 49, 50, 51,
    52, 45, 49, 50, 51, 52, 45, 49, 50, 51, 52, 53, 54, 55, 56, 57, 97,
    98, 99>>

\* TEXT of 32 bytes, valid UTF-8: U+00E9 (0xC3 0xA9) and 30 hex digits
TextUtf8Bytes ==
    <<195, 169, 49, 50, 51, 52, 53, 54, 55, 56, 49, 50, 51, 52, 49, 50, 51,
    52, 49, 50, 51, 52, 49, 50, 51, 52, 53, 54, 55, 56, 57, 48>>

\* BLOB of 16 zero bytes
BlobZeroBytes ==
    <<0, 0, 0, 0, 0, 0, 0, 0, 0, 0, 0, 0, 0, 0, 0, 0>>

\* BLOB x'12345678123412341234123456789abc'
BlobSampleBytes ==
    <<18, 52, 86, 120, 18, 52, 18, 52, 18, 52, 18, 52, 86, 120, 154, 188>>

\* BLOB of 16 bytes 0xFF (version nibble f, variant bits 11)
BlobOnesBytes ==
    <<255, 255, 255, 255, 255, 255, 255, 255, 255, 255, 255, 255, 255,
    255, 255, 255>>

\* BLOB of 15 bytes
Blob15Bytes ==
    <<18, 52, 86, 120, 18, 52, 18, 52, 18, 52, 18, 52, 86, 120, 154>>

\* BLOB of 17 bytes
Blob17Bytes ==
    <<18, 52, 86, 120, 18, 52, 18, 52, 18, 52, 18, 52, 86, 120, 154, 188,
    222>>

\* BLOB of 36 bytes, the ASCII of "12345678-1234-1234-1234-123456789abc"
Blob36Bytes ==
    <<49, 50, 51, 52, 53, 54, 55, 56, 45, 49, 50, 51, 52, 45, 49, 50, 51,
    52, 45, 49, 50, 51, 52, 45, 49, 50, 51, 52, 53, 54, 55, 56, 57, 97,
    98, 99>>

TextInputs ==
    {Text(TextZeroBytes),
     Text(TextLowerBytes),
     Text(TextUpperBytes),
     Text(TextSimpleBytes),
     Text(TextSimpleUpperBytes),
     Text(TextMixedBytes),
     Text(TextBracedBytes),
     Text(TextUrnBytes),
     Text(Text35Bytes),
     Text(Text37Bytes),
     Text(Text31Bytes),
     Text(TextNonHex36Bytes),
     Text(TextNonHex32Bytes),
     Text(TextBadHyphenBytes),
     Text(TextNoHyphen36Bytes),
     Text(TextNulBytes),
     Text(TextNotUtf8Bytes),
     Text(TextUtf8Bytes),
     Text(<<>>)}

BlobInputs ==
    {Blob(BlobZeroBytes),
     Blob(BlobSampleBytes),
     Blob(BlobOnesBytes),
     Blob(Blob15Bytes),
     Blob(Blob17Bytes),
     Blob(Blob36Bytes),
     Blob(<<>>)}

OtherInputs == {Null, Integer(7), Real(1)}

\* the values a caller passes as the one argument
Inputs == TextInputs \cup BlobInputs \cup OtherInputs

\* the largest step of the wall clock above ClockBase, in milliseconds
MaxClockStep == 1
\* the most generate-ordered calls of one run
MaxGen == 2

\* a reading (seconds, subsec_nanos) of the wall clock: 1711800319 s and
\* 999999999 ns, one millisecond before the next second
ClockBase == [seconds |-> <<0, 0, 26119, 65535>>, subsec_nanos |-> 999999999]

\* the reading k milliseconds after r
RECURSIVE ClockAdd(_, _)
ClockAdd(r, k) ==
    IF k = 0 THEN r
    ELSE ClockAdd(IF r.subsec_nanos + 1000000 < 1000000000
                  THEN [r EXCEPT !.subsec_nanos = @ + 1000000]
                  ELSE [seconds |-> wrapping_add(r.seconds, 1),
                        subsec_nanos |-> r.subsec_nanos + 1000000 - 1000000000],
                  k - 1)

ClockValues == {ClockAdd(ClockBase, k) : k \in 0..MaxClockStep}

\* random values masked to 41 bits (RESEED_MASK), as <<high 12, low 30>>
Seeds == {<<0, 0>>, <<2047, Two30 - 1>>}
\* the 128 random bits a call draws for a random identifier
Rnds == {[i \in 1..16 |-> 0], [i \in 1..16 |-> 255], BlobSampleBytes}
\* the 128 random bits a call draws for an ordered identifier: 36 of them
\* fill the bits below the counter
OrderedRnds == {[i \in 1..16 |-> 255]}

(***************************************************************************)
(* Results set on the sqlite3_context.                                     *)
(***************************************************************************)
Panic == [t |-> "panic", v |-> <<>>]

\* CString::new(s).unwrap() then sqlite3_result_text(ctx, ptr, -1, ..)
ResultText(s) ==
    IF \E i \in 1..Len(s) : s[i] = 0 THEN Panic ELSE Text(s)

\* sqlite3_result_blob(ctx, bytes, 16, ..)
ResultBlob(u) == Blob(SubSeq(u, 1, 16))

\* sqlite3_result_null(ctx)
ResultNull == Null

(***************************************************************************)
(* The SQL functions.  Each takes argc, argv (a sequence of values) and    *)
(* what the call draws from its environment: env.ctx is the ContextV7,     *)
(* env.now the clock, env.seed and env.rnd the random values,              *)
(* env.overflow_checks whether the build checks integer overflow.          *)
(* Each gives the result, the ContextV7 afterwards and the identifier it   *)
(* generated (None when it generated none).                                *)
(***************************************************************************)
\* Uuid::now_v7: Timestamp::now on the shared context, then Uuid::new_v7
now_v7(env) ==
    LET g == generate_timestamp_sequence(env.ctx, env.now.seconds,
                                         env.now.subsec_nanos, env.seed)
    IN [uuid |-> new_v7(g, env.rnd, env.overflow_checks), ctx |-> g.ctx]

\* a panic of Uuid::now_v7 inside the callback ends the process
uuid7_func(argc, argv, env) ==
    LET g == now_v7(env)
    IN IF g.uuid = Unwind
       THEN [res |-> Panic, ctx |-> g.ctx, gen |-> None]
       ELSE [res |-> ResultText(to_string(g.uuid)), ctx |-> g.ctx,
             gen |-> g.uuid]

\* a mutant: a NULL argument is treated like no argument
uuid7_blob_func_MutNull(argc, argv, env) ==
    IF argc = 0 \/ argv[1].t = "null"
    THEN LET g == now_v7(env)
         IN IF g.uuid = Unwind
            THEN [res |-> Panic, ctx |-> g.ctx, gen |-> None]
            ELSE [res |-> ResultBlob(g.uuid), ctx |-> g.ctx, gen |-> g.uuid]
    ELSE LET u == parse_uuid_arg(argv[1])
         IN [res |-> IF u # None THEN ResultBlob(u) ELSE ResultNull,
             ctx |-> env.ctx, gen |-> None]

uuid7_blob_func(argc, argv, env) ==
    IF argc = 0
    THEN LET g == now_v7(env)
         IN IF g.uuid = Unwind
            THEN [res |-> Panic, ctx |-> g.ctx, gen |-> None]
            ELSE [res |-> ResultBlob(g.uuid), ctx |-> g.ctx, gen |-> g.uuid]
    ELSE LET u == parse_uuid_arg(argv[1])
         IN [res |-> IF u # None THEN ResultBlob(u) ELSE ResultNull,
             ctx |-> env.ctx, gen |-> None]

uuid_func(argc, argv, env) ==
    LET u == new_v4(env.rnd)
    IN [res |-> ResultText(to_string(u)), ctx |-> env.ctx, gen |-> u]

\* a mutant: an argument that does not decode gets a fresh random identifier
uuid_str_func_MutFresh(argc, argv, env) ==
    LET u == parse_uuid_arg(argv[1])
    IN [res |-> IF u # None THEN ResultText(to_string(u))
                ELSE ResultText(to_string(new_v4(env.rnd))),
        ctx |-> env.ctx, gen |-> None]

uuid_str_func(argc, argv, env) ==
    LET u == parse_uuid_arg(argv[1])
    IN [res |-> IF u # None THEN ResultText(to_string(u)) ELSE ResultNull,
        ctx |-> env.ctx, gen |-> None]

\* a mutant: the buffer is re-tagged as a random identifier on the way out
uuid_blob_func_MutTag(argc, argv, env) ==
    IF argc = 0
    THEN LET u == new_v4(env.rnd)
         IN [res |-> ResultBlob(u), ctx |-> env.ctx, gen |-> u]
    ELSE LET u == parse_uuid_arg(argv[1])
         IN [res |-> IF u # None THEN ResultBlob(new_v4(u)) ELSE ResultNull,
             ctx |-> env.ctx, gen |-> None]

uuid_blob_func(argc, argv, env) ==
    IF argc = 0
    THEN LET u == new_v4(env.rnd)
         IN [res |-> ResultBlob(u), ctx |-> env.ctx, gen |-> u]
    ELSE LET u == parse_uuid_arg(argv[1])
         IN [res |-> IF u # None THEN ResultBlob(u) ELSE ResultNull,
             ctx |-> env.ctx, gen |-> None]

(***************************************************************************)
(* sqlite3_uuid_init.  The host's sqlite3_create_function_v2 answers the   *)
(* k-th registration with `code` when k = failAt, and SQLITE_OK otherwise  *)
(* (failAt = 0: every registration succeeds).                              *)
(***************************************************************************)
flags == SQLITE_UTF8 + SQLITE_INNOCUOUS
deterministic == flags + SQLITE_DETERMINISTIC

Reg(name, nArg, fl, func) ==
    [name |-> name, nArg |-> nArg, flags |-> fl, func |-> func]

\* the calls of sqlite3_create_function_v2, in the order of the source
Registrations ==
    << Reg("uuid7", 0, flags, "uuid7_func"),
       Reg("uuid7_blob", 0, flags, "uuid7_blob_func"),
       Reg("uuid7_blob", 1, deterministic, "uuid7_blob_func"),
       Reg("uuid", 0, flags, "uuid_func"),
       Reg("uuid_str", 1, deterministic, "uuid_str_func"),
       Reg("uuid_blob", 0, flags, "uuid_blob_func"),
       Reg("uuid_blob", 1, deterministic, "uuid_blob_func") >>

NumRegistrations == 7

\* the host's answer to the k-th registration
create_function_v2(k, failAt, code) == IF k = failAt THEN code ELSE SQLITE_OK

\* the non-success codes the host may answer (SQLITE_NOMEM, SQLITE_MISUSE)
ErrCodes == {7, 21}

\* one attempted registration and the host's answer to it
Attempt(k, rc) == [reg |-> Registrations[k], rc |-> rc]

\* the run of sqlite3_uuid_init from its k-th registration on: the
\* registrations attempted, those the host took, and the code returned
RECURSIVE init_from(_, _, _, _, _)
init_from(k, failAt, code, attempted, taken) ==
    LET rc == create_function_v2(k, failAt, code)
        att == Append(attempted, Attempt(k, rc))
    IN IF rc # SQLITE_OK
       THEN [attempts |-> att, registered |-> taken, rc |-> rc]
       ELSE IF k = NumRegistrations
       THEN [attempts |-> att, registered |-> Append(taken, Registrations[k]),
             rc |-> rc]
       ELSE init_from(k + 1, failAt, code, att, Append(taken, Registrations[k]))

\* a mutant: a failed registration is reported but the rest are still made
RECURSIVE init_from_MutGoOn(_, _, _, _, _)
init_from_MutGoOn(k, failAt, code, attempted, taken) ==
    LET rc == create_function_v2(k, failAt, code)
        att == Append(attempted, Attempt(k, rc))
        tk == IF rc = SQLITE_OK THEN Append(taken, Registrations[k]) ELSE taken
    IN IF k = NumRegistrations
       THEN [attempts |-> att, registered |-> tk,
             rc |-> IF failAt \in 1..NumRegistrations THEN code ELSE SQLITE_OK]
       ELSE init_from_MutGoOn(k + 1, failAt, code, att, tk)

sqlite3_uuid_init_MutGoOn(failAt, code) ==
    init_from_MutGoOn(1, failAt, code, <<>>, <<>>)

\* a mutant: every registration carries the deterministic flag
sqlite3_uuid_init_MutDet(failAt, code) ==
    LET r == init_from(1, failAt, code, <<>>, <<>>)
    IN [r EXCEPT !.registered =
            [i \in 1..Len(r.registered) |->
                [r.registered[i] EXCEPT !.flags = deterministic]]]

sqlite3_uuid_init(failAt, code) == init_from(1, failAt, code, <<>>, <<>>)

(***************************************************************************)
(* The mutex around the shared ContextV7: a call that holds it works on    *)
(* the context as it is now (cur), not as it was when the call began       *)
(* (seen).                                                                 *)
(***************************************************************************)
locked_context(seen, cur) == cur

(***************************************************************************)
(* State.                                                                  *)
(***************************************************************************)
VARIABLES
    pc,          \* "start" before sqlite3_uuid_init has run, "ready" after
    attempts,    \* the registrations sqlite3_uuid_init attempted, in order
    registered,  \* the registrations the connection holds, in order
    rc,          \* the code sqlite3_uuid_init returned
    context,     \* the process-wide ContextV7 of Uuid::now_v7
    ngen,        \* the number of generate-ordered calls made
    v7last,      \* the ordered identifier generated last, or None
    last,        \* the last SQL function call: its name, arguments, result
    tpc,         \* per thread: where its generate-ordered call stands
    tloc,        \* per thread: the locals of its generate-ordered call
    done,        \* the generate-ordered calls of the threads, as they return
    kept         \* one earlier 1-argument call a caller remembers, or NoKept

seqvars == <<pc, attempts, registered, rc, ngen, v7last, last, kept>>
thrvars == <<tpc, tloc, done>>
vars == <<pc, attempts, registered, rc, context, ngen, v7last, last,
          tpc, tloc, done, kept>>

\* the threads that call into the extension, each on a connection of its own
NumThreads == 2
Threads == 1..NumThreads
\* the most generate-ordered calls the threads make in one run
MaxThreadCalls == 3

NoArg == [t |-> "none", v |-> <<>>]
NoSrc == [fn |-> "none", arg |-> NoArg]
NoCall == [fn |-> "none", argc |-> 0, arg |-> NoArg, res |-> NoArg,
           gen |-> None, src |-> NoSrc]
NoKept == [fn |-> "none", arg |-> NoArg, res |-> NoArg, ctx |-> ContextV7New]
NoTimestamp == [seconds |-> <<0, 0, 0, 0>>, subsec_nanos |-> 0,
                counter |-> <<0, 0>>]
NoLocals == [before |-> 0, seen |-> ContextV7New,
             now |-> [seconds |-> <<0, 0, 0, 0>>, subsec_nanos |-> 0],
             ts |-> NoTimestamp]

InitThreadVars ==
    /\ tpc = [t \in Threads |-> "idle"]
    /\ tloc = [t \in Threads |-> NoLocals]
    /\ done = <<>>

Init ==
    /\ pc = "start"
    /\ attempts = <<>>
    /\ registered = <<>>
    /\ rc = SQLITE_OK
    /\ context = ContextV7New
    /\ ngen = 0
    /\ v7last = None
    /\ last = NoCall
    /\ kept = NoKept
    /\ InitThreadVars

\* the registrations of the connection for a callback
Entries(func) ==
    {registered[i] : i \in {j \in 1..Len(registered) : registered[j].func = func}}

\* the values a call may pass: an input, or the result of the last call
ArgChoices == Inputs \cup (IF last.res.t \in {"text", "blob"}
                           THEN {last.res} ELSE {})

\* where an argument came from: the last call, when it is that call's result
SrcOf(a) ==
    IF last.res.t \in {"text", "blob"} /\ a = last.res
    THEN [fn |-> last.fn, arg |-> last.arg] ELSE NoSrc

\* what a call draws from its environment
Env(now, seed, rnd, overflow_checks) ==
    [ctx |-> context, now |-> now, seed |-> seed, rnd |-> rnd,
     overflow_checks |-> overflow_checks]

\* the environments of a call that may generate an ordered identifier, in a
\* build with overflow checks or without
OrderedEnvs ==
    {Env(now, seed, rnd, overflow_checks) :
        now \in ClockValues, seed \in Seeds, rnd \in OrderedRnds,
        overflow_checks \in BOOLEAN}

\* the environments of a call that may generate a random identifier
RandomEnvs == {Env(ClockBase, <<0, 0>>, rnd, FALSE) : rnd \in Rnds}

\* the environment of a call that draws nothing
NoDraw == Env(ClockBase, <<0, 0>>, BlobZeroBytes, FALSE)

\* the arguments of a call through registration e: none, or one value
Argvs(e) == IF e.nArg = 0 THEN {<<>>} ELSE {<<a>> : a \in ArgChoices}

\* what a call through registration e with arguments argv whose callback
\* gave r leaves behind
Returned(e, argv, r) ==
    /\ last' = [fn |-> e.name, argc |-> Len(argv),
                arg |-> IF argv = <<>> THEN NoArg ELSE argv[1],
                res |-> r.res, gen |-> r.gen,
                src |-> IF argv = <<>> THEN NoSrc ELSE SrcOf(argv[1])]
    /\ context' = r.ctx
    /\ IF r.gen # None /\ e.name \in {"uuid7", "uuid7_blob"}
       THEN ngen' = ngen + 1 /\ v7last' = r.gen
       ELSE UNCHANGED <<ngen, v7last>>
    /\ UNCHANGED <<pc, attempts, registered, rc>>
    /\ UNCHANGED thrvars

\* the state after a call that no caller remembers
Called(e, argv, r) ==
    /\ Returned(e, argv, r)
    /\ UNCHANGED kept

\* the state after a call that a caller may remember: a 1-argument call is
\* remembered, with the ContextV7 it ran under, when keep says so and no
\* call is remembered yet
Recalled(e, argv, r, keep) ==
    /\ Returned(e, argv, r)
    /\ kept' = IF keep /\ kept = NoKept /\ argv # <<>>
               THEN [fn |-> e.name, arg |-> argv[1], res |-> r.res,
                     ctx |-> context]
               ELSE kept

\* the generate-ordered calls of one run are bounded
MayGenerate == ngen < MaxGen

\* SQL can call a function once sqlite3_uuid_init has returned, through the
\* registrations the host took: after a refused registration the earlier
\* ones stay in place
Usable == pc = "ready"

Sqlite3UuidInit ==
    /\ pc = "start"
    /\ \E failAt \in 0..NumRegistrations, code \in ErrCodes :
         LET r == sqlite3_uuid_init(failAt, code)
         IN /\ attempts' = r.attempts
            /\ registered' = r.registered
            /\ rc' = r.rc
    /\ pc' = "ready"
    /\ UNCHANGED <<context, ngen, v7last, last, kept>>
    /\ UNCHANGED thrvars

\* SELECT uuid7()
Uuid7 ==
    /\ Usable
    /\ \E e \in Entries("uuid7_func"), env \in OrderedEnvs :
        /\ MayGenerate
        /\ \E argv \in Argvs(e) :
             Called(e, argv, uuid7_func(Len(argv), argv, env))

\* SELECT uuid7_blob() and SELECT uuid7_blob(X)
Uuid7Blob ==
    /\ Usable
    /\ \E e \in Entries("uuid7_blob_func") :
        \E env \in IF e.nArg = 0 THEN OrderedEnvs
                   ELSE {NoDraw} :
            /\ e.nArg = 0 => MayGenerate
            /\ \E argv \in Argvs(e) :
                 Called(e, argv, uuid7_blob_func(Len(argv), argv, env))

\* SELECT uuid()
Uuid ==
    /\ Usable
    /\ \E e \in Entries("uuid_func"), env \in RandomEnvs :
        \E argv \in Argvs(e) :
            Called(e, argv, uuid_func(Len(argv), argv, env))

\* SELECT uuid_str(X)
UuidStr ==
    /\ Usable
    /\ \E e \in Entries("uuid_str_func") :
        \E argv \in Argvs(e) :
            Called(e, argv, uuid_str_func(Len(argv), argv, NoDraw))

\* SELECT uuid_blob() and SELECT uuid_blob(X)
UuidBlob ==
    /\ Usable
    /\ \E e \in Entries("uuid_blob_func") :
        \E env \in IF e.nArg = 0 THEN RandomEnvs
                   ELSE {NoDraw} :
            \E argv \in Argvs(e) :
                Called(e, argv, uuid_blob_func(Len(argv), argv, env))

Next ==
    \/ Sqlite3UuidInit
    \/ Uuid7
    \/ Uuid7Blob
    \/ Uuid
    \/ UuidStr
    \/ UuidBlob

Spec == Init /\ [][Next]_vars

(***************************************************************************)
(* Repeated 1-argument calls.  A 1-argument call runs in whatever the      *)
(* process has around it: any clock reading, any random draw, either       *)
(* build, and the ContextV7 as the calls of uuid7() made so far left it.   *)
(* A caller remembers one earlier 1-argument call; any call may be that    *)
(* one, so every pair of an earlier and a later call is compared in some   *)
(* behaviour.                                                              *)
(***************************************************************************)
\* the arguments of the repeated calls: a text that decodes, a text that
\* does not, a 16-byte blob, a 15-byte blob, NULL
RepeatArgs ==
    {Text(TextUpperBytes), Text(TextNonHex36Bytes), Blob(BlobSampleBytes),
     Blob(Blob15Bytes), Null}

\* the environments of a 1-argument call: three that differ in the clock
\* reading, the random draws and the build
RepeatEnvs ==
    {Env(ClockBase, <<0, 0>>, [i \in 1..16 |-> 0], FALSE),
     Env(ClockAdd(ClockBase, 1), <<2047, Two30 - 1>>, [i \in 1..16 |-> 255],
         TRUE),
     Env(ClockBase, <<2047, Two30 - 1>>, BlobSampleBytes, TRUE)}

\* whether the caller remembers the call it makes
Keeps == IF kept = NoKept THEN BOOLEAN ELSE {FALSE}

\* SELECT uuid_str(X), in any environment
UuidStrAny ==
    /\ Usable
    /\ \E e \in Entries("uuid_str_func"), env \in RepeatEnvs :
        \E a \in RepeatArgs, keep \in Keeps :
            Recalled(e, <<a>>, uuid_str_func(1, <<a>>, env), keep)

\* SELECT uuid_blob(X), in any environment
UuidBlobAny ==
    /\ Usable
    /\ \E e \in {r \in Entries("uuid_blob_func") : r.nArg = 1} :
        \E env \in RepeatEnvs, a \in RepeatArgs, keep \in Keeps :
            Recalled(e, <<a>>, uuid_blob_func(1, <<a>>, env), keep)

\* SELECT uuid7_blob(X), in any environment
Uuid7BlobAny ==
    /\ Usable
    /\ \E e \in {r \in Entries("uuid7_blob_func") : r.nArg = 1} :
        \E env \in RepeatEnvs, a \in RepeatArgs, keep \in Keeps :
            Recalled(e, <<a>>, uuid7_blob_func(1, <<a>>, env), keep)

\* the 1-argument calls, with SELECT uuid7() to move the ContextV7 between
\* them
NextRepeat ==
    \/ Sqlite3UuidInit
    \/ Uuid7
    \/ UuidStrAny
    \/ UuidBlobAny
    \/ Uuid7BlobAny

SpecRepeat == Init /\ [][NextRepeat]_vars

(***************************************************************************)
(* Threads racing generate-ordered calls.  Every thread has a connection   *)
(* on which sqlite3_uuid_init succeeded; the ContextV7 is shared by the    *)
(* process.  A call of uuid7() or uuid7_blob() is three steps: it begins   *)
(* and reads the clock (Timestamp::now); it takes the mutex, advances the  *)
(* context (generate_timestamp_sequence) and releases the mutex; then,     *)
(* without the mutex, it draws the random bits, builds the identifier and  *)
(* returns.  Other threads may make whole calls between two steps.         *)
(***************************************************************************)
InitThreads ==
    /\ pc = "ready"
    /\ attempts = sqlite3_uuid_init(0, SQLITE_OK).attempts
    /\ registered = sqlite3_uuid_init(0, SQLITE_OK).registered
    /\ rc = sqlite3_uuid_init(0, SQLITE_OK).rc
    /\ context = ContextV7New
    /\ ngen = 0
    /\ v7last = None
    /\ last = NoCall
    /\ kept = NoKept
    /\ InitThreadVars

\* thread t begins a call and reads the clock
TBegin(t) ==
    /\ Usable
    /\ tpc[t] = "idle"
    /\ ngen < MaxThreadCalls
    /\ \E now \in ClockValues :
         tloc' = [tloc EXCEPT ![t] =
                    [before |-> Len(done), seen |-> context, now |-> now,
                     ts |-> NoTimestamp]]
    /\ tpc' = [tpc EXCEPT ![t] = "clock"]
    /\ ngen' = ngen + 1
    /\ UNCHANGED <<pc, attempts, registered, rc, context, v7last, last, done,
                   kept>>

\* thread t, holding the mutex, advances the shared context and keeps the
\* timestamp it was given
TGenerate(t) ==
    /\ tpc[t] = "clock"
    /\ \E seed \in Seeds :
         LET g == generate_timestamp_sequence(
                      locked_context(tloc[t].seen, context),
                      tloc[t].now.seconds, tloc[t].now.subsec_nanos, seed)
         IN /\ context' = g.ctx
            /\ tloc' = [tloc EXCEPT ![t].ts =
                          [seconds |-> g.seconds,
                           subsec_nanos |-> g.subsec_nanos,
                           counter |-> g.counter]]
    /\ tpc' = [tpc EXCEPT ![t] = "generated"]
    /\ UNCHANGED <<seqvars, done>>

\* thread t, the mutex released, draws the random bits, builds the
\* identifier and returns it
TReturn(t) ==
    /\ tpc[t] = "generated"
    /\ \E rnd \in OrderedRnds, overflow_checks \in BOOLEAN :
         LET u == new_v7(tloc[t].ts, rnd, overflow_checks)
         IN /\ u # Unwind
            /\ done' = Append(done, [thread |-> t, before |-> tloc[t].before,
                                     uuid |-> u])
    /\ tpc' = [tpc EXCEPT ![t] = "idle"]
    /\ tloc' = [tloc EXCEPT ![t] = NoLocals]
    /\ UNCHANGED <<seqvars, context>>

NextThreads ==
    \E t \in Threads :
        \/ TBegin(t)
        \/ TGenerate(t)
        \/ TReturn(t)

SpecThreads == InitThreads /\ [][NextThreads]_vars

(***************************************************************************)
(* Properties.                                                             *)
(***************************************************************************)
\* the last call went through the 1-argument registration of one of `names`
OneArg(names) == last.fn \in names /\ last.argc = 1

IsHex(c) == c \in (48..57) \cup (65..70) \cup (97..102)

\* the 36-character hyphenated form, hex digits of either case
IsHyphenated36(t) ==
    /\ Len(t) = 36
    /\ \A i \in 1..36 : IF i \in {9, 14, 19, 24} THEN t[i] = 45 ELSE IsHex(t[i])

\* the 32-character plain hex form, hex digits of either case
IsPlain32(t) == Len(t) = 32 /\ \A i \in 1..32 : IsHex(t[i])

\* C1: uuid_blob and uuid7_blob with 0 arguments return a freshly generated
\* 16-byte identifier; with 1 argument they return the argument decoded and
\* re-encoded and generate nothing; a NULL (or otherwise undecodable)
\* argument gives NULL.
C1_ArityDecidesGenerateOrConvert ==
    last.fn \in {"uuid_blob", "uuid7_blob"} =>
        /\ last.argc = 0 =>
             /\ Len(last.gen) = 16
             /\ last.res = [t |-> "blob", v |-> last.gen]
             /\ last.fn = "uuid7_blob" => v7last = last.gen
        /\ last.argc = 1 =>
             /\ last.gen = None
             /\ last.res.t \in {"blob", "null"}
             /\ last.res.t = "blob" <=> parse_uuid_arg(last.arg) # None
             /\ last.res.t = "blob" => last.res.v = parse_uuid_arg(last.arg)
             /\ last.arg.t = "null" => last.res = Null

\* C1 witness: after an identifier was generated, uuid7_blob(NULL) gave NULL
C1_Witness ==
    /\ last.fn = "uuid7_blob" /\ last.argc = 1 /\ last.arg = Null
    /\ last.res = Null
    /\ ngen > 0

\* C2 (as claimed): a TEXT argument decodes only if it is the 36-character
\* hyphenated form or the 32-character plain hex form; any other text gives
\* NULL from uuid_str, uuid_blob and uuid7_blob.
C2_TextDecodesOnlyHyphenated36OrPlain32 ==
    (OneArg({"uuid_str", "uuid_blob", "uuid7_blob"}) /\ last.arg.t = "text") =>
        (last.res # Null => IsHyphenated36(last.arg.v) \/ IsPlain32(last.arg.v))

\* C3: a non-TEXT argument decodes iff it is a BLOB of exactly 16 bytes; NULL,
\* INTEGER, REAL and a BLOB of any other length give NULL; every call ends
\* with one result, a value or NULL, and never aborts.
C3_NonTextDecodesIffBlob16 ==
    /\ (OneArg({"uuid_str", "uuid_blob", "uuid7_blob"}) /\ last.arg.t # "text") =>
          /\ last.res # Null <=> (last.arg.t = "blob" /\ Len(last.arg.v) = 16)
          /\ last.res # Null =>
               last.res.t = (IF last.fn = "uuid_str" THEN "text" ELSE "blob")
    /\ last.fn # "none" => last.res.t \in {"text", "blob", "null"}

\* C3 witness: uuid_str of a 17-byte BLOB gave NULL
C3_Witness ==
    /\ last.fn = "uuid_str" /\ last.argc = 1
    /\ last.arg.t = "blob" /\ Len(last.arg.v) = 17
    /\ last.res = Null

\* C4 (as claimed): each generate-ordered call (uuid7(), uuid7_blob())
\* returns an identifier strictly greater than the one before it, as bytes
\* and as canonical text, also within one millisecond: the results are
\* distinct and increasing in call order.
C4_OrderedStrictlyIncreasing ==
    [][(ngen' = ngen + 1 /\ v7last # None) =>
          /\ BytesLess(v7last, v7last')
          /\ BytesLess(to_string(v7last), to_string(v7last'))]_vars

\* C5 (as claimed): when threads race generate-ordered calls, a call that
\* begins after another has returned gets an identifier that is not smaller,
\* whatever the other calls do in between.
C5_OrderedAcrossThreads ==
    \A i, j \in 1..Len(done) :
        i <= done[j].before => BytesLeq(done[i].uuid, done[j].uuid)

\* C6: uuid_blob(b) = b and uuid7_blob(b) = b for every 16-byte BLOB b,
\* whatever its version and variant bits.
C6_BlobRoundTrip ==
    (OneArg({"uuid_blob", "uuid7_blob"}) /\ last.arg.t = "blob"
        /\ Len(last.arg.v) = 16) => last.res = last.arg

\* C6 witness: uuid7_blob of 16 bytes 0xFF gave them back
C6_Witness ==
    /\ last.fn = "uuid7_blob" /\ last.argc = 1
    /\ last.arg = [t |-> "blob", v |-> [i \in 1..16 |-> 255]]
    /\ last.res = last.arg

\* a hex digit folded to lower case
FoldLower(c) == IF c \in 65..70 THEN c + 32 ELSE c

\* normalize(t) of a valid text: 36 characters, lower case, hyphens at the
\* standard places
Normalize(t) ==
    LET f == [i \in 1..Len(t) |-> FoldLower(t[i])]
    IN IF Len(t) = 36 THEN f
       ELSE SubSeq(f, 1, 8) \o <<45>> \o SubSeq(f, 9, 12) \o <<45>>
            \o SubSeq(f, 13, 16) \o <<45>> \o SubSeq(f, 17, 20) \o <<45>>
            \o SubSeq(f, 21, 32)

\* C7: for every valid text t (hyphenated 36 or plain 32, any case),
\* uuid_str(t) = normalize(t); and uuid_str(uuid_str(t)) = uuid_str(t).
C7_UuidStrNormalizes ==
    /\ (OneArg({"uuid_str"}) /\ last.arg.t = "text"
          /\ (IsHyphenated36(last.arg.v) \/ IsPlain32(last.arg.v))) =>
          last.res = [t |-> "text", v |-> Normalize(last.arg.v)]
    /\ (OneArg({"uuid_str"}) /\ last.src.fn = "uuid_str"
          /\ last.src.arg.t = "text"
          /\ (IsHyphenated36(last.src.arg.v) \/ IsPlain32(last.src.arg.v))) =>
          last.res = last.arg

\* C7 witness: uuid_str(uuid_str('FFFFFFFFFFFFFFFFFFFFFFFFFFFFFFFF'))
C7_Witness ==
    /\ OneArg({"uuid_str"})
    /\ last.src = [fn |-> "uuid_str",
                   arg |-> [t |-> "text", v |-> [i \in 1..32 |-> 70]]]
    /\ last.res = last.arg
    /\ last.res.t = "text"

\* the canonical form: hyphenated 36 with no upper-case digit
IsCanonical(t) == IsHyphenated36(t) /\ \A i \in 1..36 : t[i] \notin 65..70

\* C8: uuid_str(uuid_blob(t)) = t for every canonical text t;
\* uuid_blob(uuid_str(b)) = b and uuid7_blob(uuid_str(b)) = b for every
\* 16-byte BLOB b; the all-zero text gives 16 zero bytes and the 16 zero
\* bytes give the all-zero text.
C8_TextAndBlobInverse ==
    /\ (OneArg({"uuid_str"}) /\ last.src.fn \in {"uuid_blob", "uuid7_blob"}
          /\ last.src.arg.t = "text" /\ IsCanonical(last.src.arg.v)) =>
          last.res = last.src.arg
    /\ (OneArg({"uuid_blob", "uuid7_blob"}) /\ last.src.fn = "uuid_str"
          /\ last.src.arg.t = "blob" /\ Len(last.src.arg.v) = 16) =>
          last.res = last.src.arg
    /\ (OneArg({"uuid_blob", "uuid7_blob"})
          /\ last.arg = [t |-> "text", v |-> TextZeroBytes]) =>
          last.res = [t |-> "blob", v |-> [i \in 1..16 |-> 0]]
    /\ (OneArg({"uuid_str"})
          /\ last.arg = [t |-> "blob", v |-> [i \in 1..16 |-> 0]]) =>
          last.res = [t |-> "text", v |-> TextZeroBytes]

\* C8 witness: uuid_str(uuid_blob('12345678-1234-1234-1234-123456789abc'))
\* gave the text back
C8_Witness ==
    /\ OneArg({"uuid_str"})
    /\ last.src = [fn |-> "uuid_blob", arg |-> [t |-> "text", v |-> TextLowerBytes]]
    /\ last.res = last.src.arg

\* the order of registration the claim states
ClaimedOrder ==
    << <<"uuid7", 0>>, <<"uuid7_blob", 0>>, <<"uuid7_blob", 1>>, <<"uuid", 0>>,
       <<"uuid_str", 1>>, <<"uuid_blob", 0>>, <<"uuid_blob", 1>> >>

\* C9: sqlite3_uuid_init attempts its registrations in the fixed order; at
\* the first non-success answer it returns that code, attempts nothing more
\* and leaves the earlier registrations in place; it returns SQLITE_OK iff
\* all seven succeeded.
C9_InitStopsAtFirstFailure ==
    pc = "ready" =>
        LET n == Len(attempts)
        IN /\ n \in 1..7
           /\ \A i \in 1..n :
                <<attempts[i].reg.name, attempts[i].reg.nArg>> = ClaimedOrder[i]
           /\ \A i \in 1..(n - 1) : attempts[i].rc = 0
           /\ rc = attempts[n].rc
           /\ attempts[n].rc # 0 => registered = [i \in 1..(n - 1) |-> attempts[i].reg]
           /\ attempts[n].rc = 0 =>
                n = 7 /\ registered = [i \in 1..7 |-> attempts[i].reg]
           /\ rc = 0 <=> Len(registered) = 7

\* C9 witness: the fifth registration was refused with SQLITE_NOMEM
C9_Witness ==
    /\ pc = "ready"
    /\ rc = 7
    /\ Len(attempts) = 5
    /\ Len(registered) = 4

\* the deterministic bit (0x800) of a registration's flags
IsDeterministic(fl) == (fl \div 2048) % 2 = 1

FlagsAsClaimed ==
    \A i \in 1..Len(registered) :
        LET e == registered[i]
        IN /\ IsDeterministic(e.flags) <=>
                (e.nArg = 1 /\ e.name \in {"uuid_str", "uuid_blob", "uuid7_blob"})
           /\ (e.nArg = 0 /\ e.name \in {"uuid", "uuid_blob", "uuid7", "uuid7_blob"})
                => ~IsDeterministic(e.flags)

\* C10: a registration carries the deterministic flag iff it is a
\* 1-argument form (uuid_str/1, uuid_blob/1, uuid7_blob/1), the generators
\* never do, and a 1-argument call returns the same result as any earlier
\* call of the same function with the same argument, whatever the clock,
\* the random draws and the calls made in between.
C10_DeterministicIffOneArgument ==
    /\ FlagsAsClaimed
    /\ (last.argc = 1 /\ kept.fn = last.fn /\ kept.arg = last.arg)
          => last.res = kept.res

\* C10 witness: all seven registered, uuid_blob(X) called through its
\* 1-argument registration with a text that decodes, the same call
\* remembered from earlier, and the ContextV7 changed by a generating call
\* in between
C10_Witness ==
    /\ Len(registered) = 7
    /\ OneArg({"uuid_blob"})
    /\ last.arg = [t |-> "text", v |-> TextUpperBytes]
    /\ last.res.t = "blob"
    /\ kept.fn = last.fn
    /\ kept.arg = last.arg
    /\ kept.ctx # context

\* the version nibble and the variant bits of 16 bytes
VersionOfBytes(b) == b[7] \div 16
VariantOfBytes(b) == b[9] \div 64

\* the version digit and the variant digit of a 36-character text, as the
\* characters at places 15 and 20
VersionCharOf(t) == t[15]
VariantCharOf(t) == t[20]

\* C11: a generating call returns an identifier tagged for its scheme:
\* uuid() and uuid_blob() version 4, uuid7() and uuid7_blob() version 7, the
\* two top bits of the variant byte 10 in both; a text result has exactly 36
\* characters and a buffer result exactly 16 bytes.
C11_GeneratedCarriesSchemeTag ==
    (last.argc = 0 /\ last.fn \in {"uuid", "uuid_blob", "uuid7", "uuid7_blob"}) =>
        LET v == IF last.fn \in {"uuid", "uuid_blob"} THEN 4 ELSE 7
        IN IF last.fn \in {"uuid", "uuid7"}
           THEN /\ last.res.t = "text"
                /\ Len(last.res.v) = 36
                /\ VersionCharOf(last.res.v) = 48 + v
                \* '8', '9', 'a', 'b': the digits whose top bits are 10
                /\ VariantCharOf(last.res.v) \in {56, 57, 97, 98}
           ELSE /\ last.res.t = "blob"
                /\ Len(last.res.v) = 16
                /\ VersionOfBytes(last.res.v) = v
                /\ VariantOfBytes(last.res.v) = 2

\* C11 witness: uuid_blob() drew 128 one bits and returned them with the
\* version nibble 4 (0x4f) and the variant bits 10 (0xbf)
C11_Witness ==
    /\ last.fn = "uuid_blob" /\ last.argc = 0
    /\ last.res.t = "blob"
    /\ last.res.v[7] = 79
    /\ last.res.v[9] = 191
    /\ last.res.v[1] = 255

=============================================================================
